---- MODULE Spec2Model ----
(***************************************************************************)
(* Field-adapter / validation-configuration layer of the e-ticket form:    *)
(* the requirement registry, the boolean radio adapter, the unique id      *)
(* generator and the radio group components built on them.                 *)
(*                                                                         *)
(* JavaScript values are tagged records.  A JavaScript string is a         *)
(* sequence of tokens: a token is either a word (a run of letters and      *)
(* digits) or a single punctuation character, so that concatenation is     *)
(* \o, the empty string is << >>, and two strings are equal exactly when   *)
(* their token sequences are.                                              *)
(***************************************************************************)
EXTENDS Integers, Sequences, FiniteSets, TLC

VARIABLES
  registry,     \* FIELD_REQUIREMENTS: field path -> required flag
  mounted,      \* the fields whose step is on the page
  fieldValue,   \* field.state.value of every form field
  isTouched,    \* field.state.meta.isTouched
  isDirty,      \* field.state.meta.isDirty: a change went through handleChange
  errors,       \* message left by the field's validator, Undefined if none
  selected,     \* what a radio group or the phone input last handed to its
                \* change handler
  contactEvent, \* the last event an input of the contact step raised
  view,         \* what the mounted step renders for each of its fields
  dom           \* radio groups rendered together from arbitrary props

\* everything but the groups rendered from arbitrary props
formVars ==
  <<registry, mounted, fieldValue, isTouched, isDirty, errors, selected,
    contactEvent, view>>

vars == <<formVars, dom>>

----------------------------------------------------------------------------
(* JavaScript values *)

Undefined == [kind |-> "undefined"]
Null == [kind |-> "null"]
Bool(b) == [kind |-> "boolean", bool |-> b]
Str(s) == [kind |-> "string", str |-> s]
Num(n) == [kind |-> "number", num |-> n]

\* the operand of || and of ! is falsy
Falsy(v) ==
  \/ v = Undefined
  \/ v = Null
  \/ v = Str(<< >>)
  \/ v = Bool(FALSE)

\* the left operand of ?? is nullish
Nullish(v) == v = Undefined \/ v = Null

\* String(x)
String(v) ==
  CASE v.kind = "boolean" -> (IF v.bool THEN <<"true">> ELSE <<"false">>)
    [] v.kind = "null" -> <<"null">>
    [] v.kind = "undefined" -> <<"undefined">>
    [] v.kind = "number" -> <<ToString(v.num)>>
    [] v.kind = "string" -> v.str

----------------------------------------------------------------------------
(* Field paths and step ids *)

contactInfo_email == <<"contactInfo", ".", "email">>
contactInfo_phone_number == <<"contactInfo", ".", "phone", ".", "number">>
flightInfo_travelDirection == <<"flightInfo", ".", "travelDirection">>
flightInfo_hasStops == <<"flightInfo", ".", "hasStops">>
customsDeclaration_carryingMoney == <<"customsDeclaration", ".", "carryingMoney">>
customsDeclaration_carryingBiologicalMaterials ==
  <<"customsDeclaration", ".", "carryingBiologicalMaterials">>
customsDeclaration_carryingTaxableGoods ==
  <<"customsDeclaration", ".", "carryingTaxableGoods">>

customsDeclaration_carriesOverTenThousand ==
  <<"customsDeclaration", ".", "carriesOverTenThousand">>
customsDeclaration_carriesAnimalsOrFood ==
  <<"customsDeclaration", ".", "carriesAnimalsOrFood">>
customsDeclaration_carriesTaxableGoods ==
  <<"customsDeclaration", ".", "carriesTaxableGoods">>
groupTravel_travelingAlone == <<"groupTravel", ".", "travelingAlone">>
contactInfo_phone == <<"contactInfo", ".", "phone">>

customs_declaration == <<"customs", "-", "declaration">>
flight_info == <<"flight", "-", "info">>
unknown == <<"unknown">>

\* the boolean fields of the customs declaration step
CustomsFields ==
  { customsDeclaration_carriesOverTenThousand,
    customsDeclaration_carriesAnimalsOrFood,
    customsDeclaration_carriesTaxableGoods }

\* the string field of the FormRadioGroup example
StringFields == { flightInfo_travelDirection }

Fields == CustomsFields \cup StringFields

\* the fields of the contact info step
ContactFields == { contactInfo_email, contactInfo_phone }

AllFields == Fields \cup ContactFields

----------------------------------------------------------------------------
(* Field Requirement Registry *)

FIELD_REQUIREMENTS ==
  contactInfo_email :> TRUE
  @@ contactInfo_phone_number :> TRUE
  @@ flightInfo_travelDirection :> TRUE
  @@ flightInfo_hasStops :> TRUE
  @@ customsDeclaration_carryingMoney :> TRUE
  @@ customsDeclaration_carryingBiologicalMaterials :> TRUE
  @@ customsDeclaration_carryingTaxableGoods :> TRUE

\* getFieldRequirement(fieldName): lookup, false for a path with no entry
getFieldRequirement(fieldName) ==
  IF fieldName \in DOMAIN registry THEN registry[fieldName] ELSE FALSE

----------------------------------------------------------------------------
(* Unique ID Generator *)

\* characters that are not safe in a DOM id
UnsafeChars == {".", "[", "]", " "}

\* coerce a string to a safe one
Sanitize(s) == [i \in 1..Len(s) |-> IF s[i] \in UnsafeChars THEN "-" ELSE s[i]]

\* an id generator that leaves the traveler index out
generateUniqueId_NoTraveler(stepId, fieldName, value, travelerIndex) ==
  Sanitize(stepId) \o <<"-">> \o Sanitize(fieldName)
    \o <<"-">> \o Sanitize(value)

\* generateUniqueId(stepId, fieldName, value, travelerIndex?)
generateUniqueId(stepId, fieldName, value, travelerIndex) ==
  LET baseId == Sanitize(stepId) \o <<"-">> \o Sanitize(fieldName)
                  \o <<"-">> \o Sanitize(value)
  IN IF travelerIndex = Undefined
       THEN baseId
       ELSE baseId \o <<"-">> \o String(travelerIndex)

----------------------------------------------------------------------------
(* Radio group components *)

\* stepId = "unknown": the default of the stepId prop
StepIdOrDefault(stepId) == IF stepId = Undefined THEN unknown ELSE stepId.str

\* either source may switch the indicator on: required || registry
IsRequired_EitherSource(required, name) ==
  (required # Undefined /\ required.bool) \/ getFieldRequirement(name)

\* a required flag that only tells whether the prop was passed
IsRequired_PropPresence(required, name) == required # Undefined

\* isRequired of FormRadioGroup: the required prop, else the registry
IsRequired(required, name) ==
  IF required # Undefined THEN required.bool ELSE getFieldRequirement(name)

\* option ids that are always generated, whatever the caller supplied
UniqueOptions_AlwaysGenerated(options, stepId, name, travelerIndex) ==
  [i \in 1..Len(options) |->
    [value |-> options[i].value,
     id |-> generateUniqueId(stepId, name, options[i].value, travelerIndex)]]

\* uniqueOptions of FormRadioGroup: option.id || generateUniqueId(...)
UniqueOptions(options, stepId, name, travelerIndex) ==
  [i \in 1..Len(options) |->
    [value |-> options[i].value,
     id |-> IF Falsy(options[i].id)
              THEN generateUniqueId(stepId, name, options[i].value,
                                    travelerIndex)
              ELSE options[i].id.str]]

\* FormRadioGroup(props): the rendered label flag, radio value and items
FormRadioGroup(name, stateValue, options, required, value, stepId, travelerIndex) ==
  LET isRequired == IsRequired(required, name)
      uniqueOptions ==
        UniqueOptions(options, StepIdOrDefault(stepId), name, travelerIndex)
  IN [name |-> name,
      isRequired |-> isRequired,
      value |-> IF ~Nullish(value) THEN value
                ELSE IF ~Nullish(stateValue) THEN stateValue
                ELSE Str(<< >>),
      items |-> [i \in 1..Len(uniqueOptions) |->
                  [htmlFor |-> uniqueOptions[i].id,
                   id |-> uniqueOptions[i].id,
                   value |-> uniqueOptions[i].value]]]

\* string options whose generated id leaves out the field name
StringOptions_NoFieldName(options, stepId, name, travelerIndex) ==
  [i \in 1..Len(options) |->
    [value |-> String(Bool(options[i].value)),
     id |-> IF Falsy(options[i].id)
              THEN Str(generateUniqueId(stepId, << >>,
                         String(Bool(options[i].value)), travelerIndex))
              ELSE options[i].id]]

\* stringOptions of BooleanRadioGroup: values and ids of the boolean options
StringOptions(options, stepId, name, travelerIndex) ==
  [i \in 1..Len(options) |->
    [value |-> String(Bool(options[i].value)),
     id |-> IF Falsy(options[i].id)
              THEN Str(generateUniqueId(stepId, name,
                         String(Bool(options[i].value)), travelerIndex))
              ELSE options[i].id]]

\* currentStringValue of BooleanRadioGroup
CurrentStringValue(stateValue) ==
  IF stateValue # Undefined THEN String(stateValue) ELSE << >>

\* BooleanRadioGroup(props): boolean options and value converted to strings
BooleanRadioGroup(name, stateValue, options, stepId, travelerIndex) ==
  LET stringOptions ==
        StringOptions(options, StepIdOrDefault(stepId), name, travelerIndex)
      currentStringValue == CurrentStringValue(stateValue)
  IN FormRadioGroup(name, stateValue, stringOptions, Undefined,
                    Str(currentStringValue), Str(StepIdOrDefault(stepId)),
                    travelerIndex)

\* a change handler that takes every string but "false" for true
BooleanOnValueChange_NotFalse(stringValue) ==
  LET booleanValue == (stringValue # <<"false">>)
  IN Bool(booleanValue)

\* a change handler that compares with "1" instead of "true"
BooleanOnValueChange_CompareOne(stringValue) ==
  LET booleanValue == (stringValue = <<"1">>)
  IN Bool(booleanValue)

\* a change handler that keeps three states: an unrecognized string unsets
BooleanOnValueChange_TriState(stringValue) ==
  IF stringValue = <<"true">> THEN Bool(TRUE)
  ELSE IF stringValue = <<"false">> THEN Bool(FALSE)
  ELSE Undefined

\* the onValueChange BooleanRadioGroup hands to FormRadioGroup:
\* the value it passes to field.handleChange
BooleanOnValueChange(stringValue) ==
  LET booleanValue == (stringValue = <<"true">>)
  IN Bool(booleanValue)

----------------------------------------------------------------------------
(* Steps *)

\* the No / Yes options of a customs question
NoYesOptions ==
  << [value |-> FALSE, id |-> Undefined], [value |-> TRUE, id |-> Undefined] >>

\* the options of the FormRadioGroup example
EntryExitOptions ==
  << [value |-> <<"ENTRY">>, id |-> Undefined],
     [value |-> <<"EXIT">>, id |-> Undefined] >>

\* CustomsDeclarationStep: one BooleanRadioGroup per customs field
CustomsDeclarationStep(stepId, values) ==
  LET step == IF stepId = Undefined THEN Str(customs_declaration) ELSE stepId
  IN [f \in CustomsFields |->
       BooleanRadioGroup(f, values[f], NoYesOptions, step, Undefined)]

\* the radio group of the travel direction field
TravelDirectionGroup(values) ==
  [f \in StringFields |->
    FormRadioGroup(f, values[f], EntryExitOptions, Undefined, Undefined,
                   Str(flight_info), Undefined)]

\* everything the mounted form shows for the field values
RenderForm(values) ==
  CustomsDeclarationStep(Undefined, values) @@ TravelDirectionGroup(values)

----------------------------------------------------------------------------
(* Validators *)

\* the message of the second issue instead of the first
FirstIssueMessage_SecondIssue(result) ==
  IF Len(result.issues) >= 2 THEN result.issues[2] ELSE Undefined

\* result.error.issues[0]?.message
FirstIssueMessage(result) ==
  IF Len(result.issues) >= 1 THEN result.issues[1] ELSE Undefined

\* safeParse of the boolean schemas of the customs fields
safeParse(value) ==
  IF value.kind = "boolean"
    THEN [success |-> TRUE, issues |-> << >>]
    ELSE [success |-> FALSE, issues |-> << Str(<<"Expected boolean">>) >>]

PleaseSelect(f) ==
  CASE f = customsDeclaration_carriesOverTenThousand ->
         Str(<<"Please select if you're carrying over $10,000">>)
    [] f = customsDeclaration_carriesAnimalsOrFood ->
         Str(<<"Please select if you're carrying biological materials">>)
    [] f = customsDeclaration_carriesTaxableGoods ->
         Str(<<"Please select if you're carrying taxable goods">>)

\* a validator that guards against null only
onChange_NullOnly(f, value) ==
  IF f \in CustomsFields
    THEN IF value = Null
           THEN PleaseSelect(f)
           ELSE LET result == safeParse(value)
                IN IF result.success THEN Undefined
                   ELSE FirstIssueMessage(result)
    ELSE Undefined

\* validators.onChange of a field: the message, Undefined when valid
onChange(f, value) ==
  IF f \in CustomsFields
    THEN IF value = Null \/ value = Undefined
           THEN PleaseSelect(f)
           ELSE LET result == safeParse(value)
                IN IF result.success THEN Undefined
                   ELSE FirstIssueMessage(result)
    ELSE Undefined

\* the fields whose validators have an onChange, and an onBlur
OnChangeFields == CustomsFields
OnBlurFields == ContactFields

\* value.trim(): a " " token is a run of white space
Trim(s) ==
  LET inked == {i \in 1..Len(s) : s[i] # " "}
  IN IF inked = {} THEN << >>
     ELSE SubSeq(s, CHOOSE i \in inked : \A j \in inked : i <= j,
                    CHOOSE i \in inked : \A j \in inked : i >= j)

\* a well-formed address: local part, "@", domain with a dot
WellFormedEmail(s) ==
  /\ \A i \in 1..Len(s) : s[i] # " "
  /\ Cardinality({i \in 1..Len(s) : s[i] = "@"}) = 1
  /\ \E i \in 2..Len(s) :
       /\ s[i] = "@"
       /\ \E j \in (i + 2)..(Len(s) - 1) : s[j] = "."
       /\ s[i - 1] \notin {".", "@"}
       /\ s[i + 1] \notin {".", "@"}
  /\ s[Len(s)] \notin {".", "@"}

\* validateEmail.safeParse(value)
validateEmail_safeParse(value) ==
  IF value.kind # "string"
    THEN [success |-> FALSE, issues |-> << Str(<<"Expected string">>) >>]
  ELSE IF value.str = << >>
    THEN [success |-> FALSE, issues |-> << Str(<<"Email is required">>) >>]
  ELSE IF ~WellFormedEmail(value.str)
    THEN [success |-> FALSE,
          issues |-> << Str(<<"Please enter a valid email address">>) >>]
  ELSE [success |-> TRUE, issues |-> << >>]

EmailRequired == Str(<<"Email is required for e-ticket delivery">>)
PhoneRequired == Str(<<"Phone number is required for travel notifications">>)
PhoneInvalid == Str(<<"Please enter a valid phone number">>)

\* a validator that asks the schema before the required check
onBlurEmail_SchemaFirst(value) ==
  LET result == validateEmail_safeParse(value)
  IN IF ~result.success THEN FirstIssueMessage(result)
     ELSE IF Falsy(value) \/ Trim(value.str) = << >> THEN EmailRequired
     ELSE Undefined

\* validators.onBlur of contactInfo.email
onBlurEmail(value) ==
  IF Falsy(value) \/ Trim(value.str) = << >>
    THEN EmailRequired
    ELSE LET result == validateEmail_safeParse(value)
         IN IF result.success THEN Undefined ELSE FirstIssueMessage(result)

\* numbers that are valid subscriber numbers with their country code
ValidNumbers == {"18095551234"}

\* isValidPhoneNumber(value): "+" and the digits of a valid number
isValidPhoneNumber(s) ==
  /\ Len(s) = 2
  /\ s[1] = "+"
  /\ s[2] \in ValidNumbers

\* a validator that does not trim the value
onBlurPhone_NoTrim(value) ==
  IF Falsy(value)
    THEN PhoneRequired
    ELSE IF isValidPhoneNumber(value.str) THEN Undefined ELSE PhoneInvalid

\* validators.onBlur of contactInfo.phone
onBlurPhone(value) ==
  IF Falsy(value) \/ Trim(value.str) = << >>
    THEN PhoneRequired
    ELSE IF isValidPhoneNumber(value.str) THEN Undefined ELSE PhoneInvalid

\* validators.onBlur of a field
onBlur(f, value) ==
  IF f = contactInfo_email THEN onBlurEmail(value)
  ELSE IF f = contactInfo_phone THEN onBlurPhone(value)
  ELSE Undefined

----------------------------------------------------------------------------
(* The mounted form: field state and the events of the radio groups *)

\* values a form may give a field before the user touches it
BooleanDefaults == {Undefined, Null, Bool(TRUE), Bool(FALSE)}
StringDefaults == {Undefined, Str(<< >>)}

\* strings a radio group may hand to the adapted change handler
RadioStrings == { <<"true">>, <<"false">>, << >>, <<"maybe">> }

\* values of the items of the travel direction group
DirectionStrings == { <<"ENTRY">>, <<"EXIT">> }

\* the form after construction, with the fields m on the page
InitForm(m) ==
  /\ registry = FIELD_REQUIREMENTS
  /\ mounted = m
  /\ fieldValue \in [AllFields -> BooleanDefaults \cup StringDefaults]
  /\ \A f \in AllFields \ m : fieldValue[f] = Undefined
  /\ \A f \in CustomsFields \cap m : fieldValue[f] \in BooleanDefaults
  /\ \A f \in (StringFields \cup ContactFields) \cap m :
       fieldValue[f] \in StringDefaults
  /\ isTouched = [f \in AllFields |-> FALSE]
  /\ isDirty = [f \in AllFields |-> FALSE]
  /\ errors = [f \in AllFields |-> Undefined]
  /\ selected = [f \in AllFields |-> Undefined]
  /\ contactEvent = Undefined
  /\ view = RenderForm(fieldValue)
  /\ dom = {}

Init == InitForm(Fields)

\* a change handler that also records the changed field as required
handleChange_MarksRequired(f, value) ==
  /\ f \in mounted
  /\ fieldValue' = [fieldValue EXCEPT ![f] = value]
  /\ isTouched' = [isTouched EXCEPT ![f] = TRUE]
  /\ isDirty' = [isDirty EXCEPT ![f] = TRUE]
  /\ errors' = IF f \in OnChangeFields
                 THEN [errors EXCEPT ![f] = onChange(f, value)]
                 ELSE errors
  /\ registry' = (f :> TRUE) @@ registry
  /\ view' = RenderForm(fieldValue')
  /\ UNCHANGED <<mounted, dom>>

\* a change handler that runs every validator of the field
handleChange_ValidatesAll(f, value) ==
  /\ f \in mounted
  /\ fieldValue' = [fieldValue EXCEPT ![f] = value]
  /\ isTouched' = [isTouched EXCEPT ![f] = TRUE]
  /\ isDirty' = [isDirty EXCEPT ![f] = TRUE]
  /\ errors' = IF f \in OnChangeFields
                 THEN [errors EXCEPT ![f] = onChange(f, value)]
                 ELSE IF f \in OnBlurFields
                   THEN [errors EXCEPT ![f] = onBlur(f, value)]
                   ELSE errors
  /\ view' = RenderForm(fieldValue')
  /\ UNCHANGED <<registry, mounted, dom>>

\* field.handleChange(value): store the value, run validators.onChange if
\* the field has one, and re-render the form
handleChange(f, value) ==
  /\ f \in mounted
  /\ fieldValue' = [fieldValue EXCEPT ![f] = value]
  /\ isTouched' = [isTouched EXCEPT ![f] = TRUE]
  /\ isDirty' = [isDirty EXCEPT ![f] = TRUE]
  /\ errors' = IF f \in OnChangeFields
                 THEN [errors EXCEPT ![f] = onChange(f, value)]
                 ELSE errors
  /\ view' = RenderForm(fieldValue')
  /\ UNCHANGED <<registry, mounted, dom>>

\* a blur handler that commits an empty value for a field left unset
handleBlur_CommitsEmpty(f) ==
  /\ f \in mounted
  /\ isTouched' = [isTouched EXCEPT ![f] = TRUE]
  /\ fieldValue' = [fieldValue EXCEPT ![f] =
                      IF Nullish(@)
                        THEN IF f \in CustomsFields THEN Bool(FALSE)
                             ELSE Str(<< >>)
                        ELSE @]
  /\ errors' = IF f \in OnBlurFields
                 THEN [errors EXCEPT ![f] = onBlur(f, fieldValue'[f])]
                 ELSE errors
  /\ view' = RenderForm(fieldValue')
  /\ UNCHANGED <<registry, mounted, isDirty, dom>>

\* a blur handler that runs every validator of the field
handleBlur_ValidatesAll(f) ==
  /\ f \in mounted
  /\ isTouched' = [isTouched EXCEPT ![f] = TRUE]
  /\ errors' = IF f \in OnBlurFields
                 THEN [errors EXCEPT ![f] = onBlur(f, fieldValue[f])]
                 ELSE IF f \in OnChangeFields
                   THEN [errors EXCEPT ![f] = onChange(f, fieldValue[f])]
                   ELSE errors
  /\ view' = RenderForm(fieldValue)
  /\ UNCHANGED <<registry, mounted, fieldValue, isDirty, dom>>

\* field.handleBlur(): mark the field touched, run validators.onBlur if the
\* field has one, and re-render the form
handleBlur(f) ==
  /\ f \in mounted
  /\ isTouched' = [isTouched EXCEPT ![f] = TRUE]
  /\ errors' = IF f \in OnBlurFields
                 THEN [errors EXCEPT ![f] = onBlur(f, fieldValue[f])]
                 ELSE errors
  /\ view' = RenderForm(fieldValue)
  /\ UNCHANGED <<registry, mounted, fieldValue, isDirty, dom>>

\* a write that hands the selected string to the change handler
SelectBoolean_WritesString(f, stringValue) ==
  /\ f \in CustomsFields
  /\ selected' = [selected EXCEPT ![f] = Str(stringValue)]
  /\ handleChange(f, Str(stringValue))
  /\ UNCHANGED contactEvent

\* the user picks an item of a boolean radio group: the adapter's write
SelectBoolean(f, stringValue) ==
  /\ f \in CustomsFields
  /\ selected' = [selected EXCEPT ![f] = Str(stringValue)]
  /\ handleChange(f, BooleanOnValueChange(stringValue))
  /\ UNCHANGED contactEvent

\* the user picks an item of a string radio group: field.handleChange itself
SelectString(f, stringValue) ==
  /\ f \in StringFields
  /\ selected' = [selected EXCEPT ![f] = Str(stringValue)]
  /\ handleChange(f, Str(stringValue))
  /\ UNCHANGED contactEvent

\* onBlur of a radio group: field.handleBlur
BlurRadioGroup(f) ==
  /\ f \in Fields
  /\ handleBlur(f)
  /\ UNCHANGED <<selected, contactEvent>>

Next ==
  \/ \E f \in CustomsFields, s \in RadioStrings : SelectBoolean(f, s)
  \/ \E f \in StringFields, s \in DirectionStrings : SelectString(f, s)
  \/ \E f \in Fields : BlurRadioGroup(f)

Spec == Init /\ [][Next]_vars

----------------------------------------------------------------------------
(* Radio groups rendered together from the props of their callers *)

MaxGroups == 2
MaxTraveler == 0

TravelerIndexes == {Undefined} \cup {Num(i) : i \in 0..MaxTraveler}

\* the stepId prop of a string group and of a boolean group
StringStepIds == {Undefined, Str(flight_info)}
BooleanStepIds == {Undefined, Str(customs_declaration)}

RequiredProps == {Undefined, Bool(TRUE), Bool(FALSE)}

\* option lists of a string group: no ids, and ids given, empty and missing
StringOptionLists ==
  { EntryExitOptions,
    << [value |-> <<"solo">>, id |-> Str(<<"solo">>)],
       [value |-> <<"group">>, id |-> Str(<< >>)],
       [value |-> <<"ENTRY">>, id |-> Undefined] >> }

\* option lists of a boolean group: no ids, and ids given and empty
BooleanOptionLists ==
  { NoYesOptions,
    << [value |-> FALSE, id |-> Str(<<"no">>)],
       [value |-> TRUE, id |-> Str(<< >>)] >> }

\* <FormRadioGroup field options required stepId travelerIndex />
RenderFormRadioGroup(name, options, required, stepId, travelerIndex) ==
  /\ Cardinality(dom) < MaxGroups
  /\ dom' = dom \cup
       { [props |-> [component |-> "FormRadioGroup", name |-> name,
                     options |-> options, required |-> required,
                     stepId |-> stepId, travelerIndex |-> travelerIndex],
          out |-> FormRadioGroup(name, fieldValue[name], options, required,
                                 Undefined, stepId, travelerIndex)] }
  /\ UNCHANGED formVars

\* <BooleanRadioGroup field options stepId travelerIndex />
RenderBooleanRadioGroup(name, options, stepId, travelerIndex) ==
  /\ Cardinality(dom) < MaxGroups
  /\ dom' = dom \cup
       { [props |-> [component |-> "BooleanRadioGroup", name |-> name,
                     options |-> options, required |-> Undefined,
                     stepId |-> stepId, travelerIndex |-> travelerIndex],
          out |-> BooleanRadioGroup(name, fieldValue[name], options, stepId,
                                    travelerIndex)] }
  /\ UNCHANGED formVars

\* <CustomsDeclarationStep stepId />: the page shows its three groups
RenderCustomsDeclarationStep(stepId) ==
  /\ dom' =
       { [props |-> [component |-> "BooleanRadioGroup", name |-> f,
                     options |-> NoYesOptions, required |-> Undefined,
                     stepId |-> IF stepId = Undefined
                                  THEN Str(customs_declaration) ELSE stepId,
                     travelerIndex |-> Undefined],
          out |-> CustomsDeclarationStep(stepId, fieldValue)[f]]
         : f \in CustomsFields }
  /\ UNCHANGED formVars

InitRender ==
  /\ Init
  /\ fieldValue = [f \in AllFields |-> Undefined]

NextRender ==
  \/ \E name \in StringFields, options \in StringOptionLists,
        required \in RequiredProps, stepId \in StringStepIds,
        travelerIndex \in TravelerIndexes :
       RenderFormRadioGroup(name, options, required, stepId, travelerIndex)
  \/ \E name \in CustomsFields, options \in BooleanOptionLists,
        stepId \in BooleanStepIds, travelerIndex \in TravelerIndexes :
       RenderBooleanRadioGroup(name, options, stepId, travelerIndex)
  \/ \E stepId \in BooleanStepIds \cup StringStepIds :
       RenderCustomsDeclarationStep(stepId)

SpecRender == InitRender /\ [][NextRender]_vars

----------------------------------------------------------------------------
(* The wizard steps: one step on the page, its inputs and their events *)

\* what the email input hands to its change handler
EmailInputs ==
  { << >>, <<" ">>, <<"user">>, <<"a", "@", "b", ".", "com">> }

\* what PhoneInput hands to onChange
PhoneInputs ==
  { Undefined, Str(<< >>), Str(<<" ">>), Str(<<"+", "1">>),
    Str(<<"+", "18095551234">>) }

Event(type, f) == [type |-> type, field |-> f]

\* the email input changes: field.handleChange of the typed text
EmailChange(s) ==
  /\ handleChange(contactInfo_email, Str(s))
  /\ contactEvent' = Event("change", contactInfo_email)
  /\ UNCHANGED selected

\* the email input loses focus: field.handleBlur
EmailBlur ==
  /\ handleBlur(contactInfo_email)
  /\ contactEvent' = Event("blur", contactInfo_email)
  /\ UNCHANGED selected

\* a change handler that forwards what the phone input reports as it is
handlePhoneChange_Forward(value) ==
  /\ handleChange(contactInfo_phone, value)
  /\ contactEvent' = Event("change", contactInfo_phone)
  /\ selected' = [selected EXCEPT ![contactInfo_phone] = value]

\* field.handleChange(value || ""); selected keeps what the input reported
handlePhoneChange(value) ==
  /\ handleChange(contactInfo_phone, IF Falsy(value) THEN Str(<< >>) ELSE value)
  /\ contactEvent' = Event("change", contactInfo_phone)
  /\ selected' = [selected EXCEPT ![contactInfo_phone] = value]

\* field.handleBlur()
handlePhoneBlur ==
  /\ handleBlur(contactInfo_phone)
  /\ contactEvent' = Event("blur", contactInfo_phone)
  /\ UNCHANGED selected

\* field.handleChange(value) of a customs field, with any value of its type
ChangeCustoms(f, value) ==
  /\ f \in CustomsFields
  /\ handleChange(f, value)
  /\ UNCHANGED <<selected, contactEvent>>

InitSteps == \E m \in {ContactFields, CustomsFields} : InitForm(m)

NextSteps ==
  \/ \E s \in EmailInputs : EmailChange(s)
  \/ EmailBlur
  \/ \E value \in PhoneInputs : handlePhoneChange(value)
  \/ handlePhoneBlur
  \/ \E f \in CustomsFields, value \in BooleanDefaults : ChangeCustoms(f, value)
  \/ \E f \in CustomsFields : BlurRadioGroup(f)

SpecSteps == InitSteps /\ [][NextSteps]_vars

----------------------------------------------------------------------------
(* Boolean Field Adapter *)

\* the string the adapter contract asks for on a read
AdapterRead(v) ==
  IF v = Bool(TRUE) THEN <<"true">>
  ELSE IF v = Bool(FALSE) THEN <<"false">>
  ELSE << >>

\* C1: the string handed to the radio group of a boolean field is "true"
\* for true, "false" for false and the empty string for an unset value
\* (null or undefined).
C1_ReadYieldsOptionString ==
  \A f \in CustomsFields : view[f].value = Str(AdapterRead(fieldValue[f]))

\* C2: once a string v went through the adapted change handler, the
\* underlying value is the boolean (v = "true"): "false", the empty string
\* and an unrecognized string all leave false, never unset.
C2_WriteSetsEqualsTrueValue ==
  \A f \in CustomsFields :
    selected[f] # Undefined =>
      fieldValue[f] = Bool(selected[f].str = <<"true">>)

C2_Witness ==
  \E f, g, h \in CustomsFields :
    /\ selected[f] = Str(<<"maybe">>) /\ fieldValue[f] = Bool(FALSE)
    /\ selected[g] = Str(<< >>) /\ fieldValue[g] = Bool(FALSE)
    /\ selected[h] = Str(<<"true">>) /\ fieldValue[h] = Bool(TRUE)

\* C3: on the documented domain the adapter round-trips: writing back the
\* string read for a boolean leaves that boolean, and after writing "true"
\* or "false" the string read is the one written.
C3_RoundTrip ==
  /\ [][\A f \in CustomsFields :
          ( /\ fieldValue[f].kind = "boolean"
            /\ isDirty'[f]
            /\ selected'[f] = view[f].value )
          => fieldValue'[f] = fieldValue[f]]_vars
  /\ [](\A f \in CustomsFields :
          selected[f] \in {Str(<<"true">>), Str(<<"false">>)}
          => view[f].value = selected[f])

C3_Witness ==
  \E f, g \in CustomsFields :
    /\ selected[f] = Str(<<"true">>) /\ view[f].value = Str(<<"true">>)
    /\ fieldValue[f] = Bool(TRUE)
    /\ selected[g] = Str(<<"false">>) /\ view[g].value = Str(<<"false">>)
    /\ fieldValue[g] = Bool(FALSE)

\* C4: once the user has written through the adapter the field is never
\* unset again: a dirty boolean field holds true or false in every state.
C4_UnsetLostAfterWrite ==
  \A f \in CustomsFields : isDirty[f] => fieldValue[f].kind = "boolean"

C4_Witness ==
  \E f \in CustomsFields :
    /\ isDirty[f] /\ isTouched[f]
    /\ selected[f] = Str(<< >>)
    /\ fieldValue[f] = Bool(FALSE)

----------------------------------------------------------------------------
(* Field Requirement Registry *)

\* the paths the registry is asked about
Paths == DOMAIN FIELD_REQUIREMENTS \cup Fields \cup {groupTravel_travelingAlone}

\* C6: no operation changes the requirement flag of any field path.
C6_RequirementImmutable ==
  [][\A p \in Paths : getFieldRequirement(p)' = getFieldRequirement(p)]_vars

C6_Witness ==
  /\ \E f \in CustomsFields : isDirty[f]
  /\ \E f \in StringFields : isDirty[f]
  /\ \E f \in Fields : isTouched[f] /\ ~isDirty[f]
  /\ \A p \in Paths :
       getFieldRequirement(p) = (p \in DOMAIN FIELD_REQUIREMENTS)

\* the configured flag of a path, false when the registry has no entry
Configured(p) ==
  IF p \in DOMAIN FIELD_REQUIREMENTS THEN FIELD_REQUIREMENTS[p] ELSE FALSE

----------------------------------------------------------------------------
(* Unique ID Generator *)

\* the value of option i of a group as the string its radio item carries
OptionValue(g, i) ==
  IF g.props.component = "BooleanRadioGroup"
    THEN String(Bool(g.props.options[i].value))
    ELSE g.props.options[i].value

\* the (stepId, fieldName, optionValue, travelerIndex) of option i of a group
Tuple(g, i) ==
  << StepIdOrDefault(g.props.stepId), g.props.name, OptionValue(g, i),
     g.props.travelerIndex >>

\* the options of the rendered groups
Rendered == UNION {{<<g, i>> : i \in DOMAIN g.props.options} : g \in dom}

\* the options of the rendered groups that came without an id of the caller
Derived == {o \in Rendered : Falsy(o[1].props.options[o[2]].id)}

C9_NoIdCollision ==
  /\ \A o1, o2 \in Derived :
       Tuple(o1[1], o1[2]) # Tuple(o2[1], o2[2])
       => o1[1].out.items[o1[2]].id # o2[1].out.items[o2[2]].id
  /\ ( /\ {g.props.name : g \in dom} = CustomsFields
       /\ \A g \in dom : g.props.options = NoYesOptions )
     => Cardinality({o[1].out.items[o[2]].id : o \in Rendered})
          = 2 * Cardinality(dom)

C9_Witness ==
  /\ {g.props.name : g \in dom} = CustomsFields
  /\ \A g \in dom : /\ g.props.stepId = Str(customs_declaration)
                     /\ g.props.options = NoYesOptions
  /\ Cardinality(dom) = 3
  /\ Cardinality({o[1].out.items[o[2]].id : o \in Rendered}) = 6

\* the id of option i of a group, had it been derived
DerivedId(g, i) ==
  generateUniqueId(StepIdOrDefault(g.props.stepId), g.props.name,
                   OptionValue(g, i), g.props.travelerIndex)

\* C10 as stated: an option shows the id of the caller when one is given,
\* and the derived id otherwise.
C10_IdDerivedUnlessGiven ==
  \A o \in Rendered :
    LET g == o[1]
        i == o[2]
    IN /\ g.out.items[i].htmlFor = g.out.items[i].id
       /\ g.out.items[i].id =
            IF g.props.options[i].id # Undefined
              THEN g.props.options[i].id.str
              ELSE DerivedId(g, i)

\* C10: label and radio item of an option carry one id: the id of the
\* caller when a non-empty one is given, and otherwise (no id, or the empty
\* string) generateUniqueId(stepId, field name, option value, travelerIndex)
\* with "unknown" for a missing stepId.
C10_IdDerivedUnlessNonEmptyGiven ==
  \A o \in Rendered :
    LET g == o[1]
        i == o[2]
    IN /\ g.out.items[i].htmlFor = g.out.items[i].id
       /\ g.out.items[i].id =
            IF g.props.options[i].id \notin {Undefined, Str(<< >>)}
              THEN g.props.options[i].id.str
              ELSE DerivedId(g, i)

C10_Witness ==
  \E g, h \in dom :
    /\ g.props.component = "FormRadioGroup"
    /\ g.props.stepId = Undefined
    /\ g.props.options[1].id = Str(<<"solo">>)
    /\ g.out.items[1].id = <<"solo">>
    /\ g.props.options[2].id = Str(<< >>)
    /\ g.out.items[2].id = DerivedId(g, 2)
    /\ g.props.options[3].id = Undefined
    /\ g.out.items[3].id = DerivedId(g, 3)
    /\ h.props.component = "BooleanRadioGroup"
    /\ h.props.travelerIndex # Undefined
    /\ h.props.options[1].id = Undefined
    /\ h.out.items[1].id = DerivedId(h, 1)

----------------------------------------------------------------------------
(* Step validators *)

\* a value that is missing, empty or white space only
EmptyOrBlank(v) ==
  \/ v \in {Undefined, Null}
  \/ v.kind = "string" /\ \A i \in 1..Len(v.str) : v.str[i] = " "

Blurred(f) == contactEvent = Event("blur", f)

\* C11: after a blur of the email field, a value that is missing, empty or
\* white space only leaves the message "Email is required for e-ticket
\* delivery" (never the schema's own message), and a well-formed address
\* leaves no message.
C11_EmailRequiredFirst ==
  Blurred(contactInfo_email) =>
    LET value == fieldValue[contactInfo_email]
    IN /\ EmptyOrBlank(value) =>
            errors[contactInfo_email] =
              Str(<<"Email is required for e-ticket delivery">>)
       /\ (value.kind = "string" /\ WellFormedEmail(value.str)) =>
            errors[contactInfo_email] = Undefined

C11_Witness ==
  /\ Blurred(contactInfo_email)
  /\ fieldValue[contactInfo_email] = Str(<<" ">>)
  /\ isDirty[contactInfo_email]
  /\ errors[contactInfo_email] = EmailRequired

NonEmptyMessage(m) == m.kind = "string" /\ m.str # << >>

\* C12: the error of every field of the contact and customs steps is either
\* no message or a non-empty string, and where the schema of a validated
\* value reports a failure the error is a message, never undefined.
C12_FailureHasMessage ==
  /\ \A f \in ContactFields \cup CustomsFields :
       errors[f] = Undefined \/ NonEmptyMessage(errors[f])
  /\ \A f \in CustomsFields :
       (isDirty[f] /\ ~safeParse(fieldValue[f]).success) =>
         NonEmptyMessage(errors[f])
  /\ (/\ Blurred(contactInfo_email)
      /\ ~validateEmail_safeParse(fieldValue[contactInfo_email]).success) =>
       NonEmptyMessage(errors[contactInfo_email])

C12_Witness ==
  /\ Blurred(contactInfo_email)
  /\ fieldValue[contactInfo_email] = Str(<<"user">>)
  /\ errors[contactInfo_email] = Str(<<"Please enter a valid email address">>)

\* C15: after a change of a customs field, a null or undefined value leaves
\* the field's own "Please select ..." message, and a boolean leaves no
\* message exactly when the schema accepts it, otherwise the message of the
\* schema's first issue.
C15_CustomsValidator ==
  \A f \in CustomsFields :
    isDirty[f] =>
      LET value == fieldValue[f]
          result == safeParse(value)
      IN /\ (value = Null \/ value = Undefined) =>
              /\ f = customsDeclaration_carriesOverTenThousand =>
                   errors[f] =
                     Str(<<"Please select if you're carrying over $10,000">>)
              /\ f = customsDeclaration_carriesAnimalsOrFood =>
                   errors[f] =
                     Str(<<"Please select if you're carrying biological materials">>)
              /\ f = customsDeclaration_carriesTaxableGoods =>
                   errors[f] =
                     Str(<<"Please select if you're carrying taxable goods">>)
         /\ value.kind = "boolean" =>
              /\ errors[f] = Undefined <=> result.success
              /\ ~result.success => errors[f] = result.issues[1]

C15_Witness ==
  /\ isDirty[customsDeclaration_carriesAnimalsOrFood]
  /\ fieldValue[customsDeclaration_carriesAnimalsOrFood] = Undefined
  /\ errors[customsDeclaration_carriesAnimalsOrFood] =
       Str(<<"Please select if you're carrying biological materials">>)
  /\ isDirty[customsDeclaration_carriesTaxableGoods]
  /\ fieldValue[customsDeclaration_carriesTaxableGoods] = Bool(FALSE)
  /\ errors[customsDeclaration_carriesTaxableGoods] = Undefined

\* C16: after a blur of the phone field, a value that is missing, empty or
\* white space only leaves "Phone number is required for travel
\* notifications"; any other value leaves no message exactly when
\* isValidPhoneNumber accepts it, else "Please enter a valid phone number".
C16_PhoneValidator ==
  Blurred(contactInfo_phone) =>
    LET value == fieldValue[contactInfo_phone]
    IN IF EmptyOrBlank(value)
         THEN errors[contactInfo_phone] =
                Str(<<"Phone number is required for travel notifications">>)
         ELSE /\ errors[contactInfo_phone] = Undefined <=>
                   isValidPhoneNumber(value.str)
              /\ ~isValidPhoneNumber(value.str) =>
                   errors[contactInfo_phone] =
                     Str(<<"Please enter a valid phone number">>)

C16_Witness ==
  /\ Blurred(contactInfo_phone)
  /\ fieldValue[contactInfo_phone] = Str(<<"+", "1">>)
  /\ errors[contactInfo_phone] = PhoneInvalid

----------------------------------------------------------------------------
(* Adapter, registry and steps together *)

\* C13: a step in which the radio group hands no new string to the adapter
\* (a read: every step renders the group) leaves the field's value and its
\* dirty flag as they were; a step in which it does stores the boolean made
\* of that string in this field, marks it changed, and leaves the value,
\* flags, error and selection of every other field and the registry as they
\* were.
C13_AdapterFrame ==
  [][\A f \in CustomsFields :
       IF selected'[f] = selected[f]
         THEN fieldValue'[f] = fieldValue[f] /\ isDirty'[f] = isDirty[f]
         ELSE /\ fieldValue'[f] \in {Bool(TRUE), Bool(FALSE)}
              /\ fieldValue'[f] = Bool(selected'[f].str = <<"true">>)
              /\ isDirty'[f]
              /\ registry' = registry
              /\ \A g \in AllFields \ {f} :
                   /\ fieldValue'[g] = fieldValue[g]
                   /\ isTouched'[g] = isTouched[g]
                   /\ isDirty'[g] = isDirty[g]
                   /\ errors'[g] = errors[g]
                   /\ selected'[g] = selected[g]
    ]_vars

C13_Witness ==
  \E f, g \in CustomsFields :
    /\ selected[f] = Str(<<"false">>) /\ fieldValue[f] = Bool(FALSE)
    /\ view[f].value = Str(<<"false">>)
    /\ isTouched[g] /\ ~isDirty[g] /\ fieldValue[g] = Null

\* C14: every field whose validator rejects an empty or unset value
\* (contactInfo.email, contactInfo.phone and the three customs fields) is
\* required by the registry under the path the step gives it, and the
\* customs groups, which pass no required prop, show it.
C14_ValidatedFieldsRequired ==
  /\ \A f \in ContactFields \cup CustomsFields : getFieldRequirement(f)
  /\ \A f \in CustomsFields : view[f].isRequired

\* booleanFieldAdapter(field, config).value
booleanFieldAdapter_value(stateValue, config) ==
  IF stateValue = Bool(TRUE) THEN config.trueValue
  ELSE IF stateValue = Bool(FALSE) THEN config.falseValue
  ELSE << >>

\* booleanFieldAdapter(field, config).handleChange(value)
booleanFieldAdapter_handleChange(value, config) ==
  Bool(value = config.trueValue)

TrueFalseConfig == [trueValue |-> <<"true">>, falseValue |-> <<"false">>]

\* C18: on every underlying value the string BooleanRadioGroup hands to the
\* radio group is the one booleanFieldAdapter with "true"/"false" reads, and
\* after every selected string the stored value is the boolean that
\* adapter's handleChange sets.
C18_SameAsDocumentedAdapter ==
  \A f \in CustomsFields :
    /\ view[f].value =
         Str(booleanFieldAdapter_value(fieldValue[f], TrueFalseConfig))
    /\ selected[f] # Undefined =>
         fieldValue[f] =
           booleanFieldAdapter_handleChange(selected[f].str, TrueFalseConfig)

C20_ExplicitRequiredWins ==
  \A g \in dom :
    IF g.props.component = "FormRadioGroup" /\ g.props.required # Undefined
      THEN g.out.isRequired = (g.props.required = Bool(TRUE))
      ELSE g.out.isRequired = getFieldRequirement(g.props.name)

C20_Witness ==
  \E g, h \in dom :
    /\ g.props.component = "FormRadioGroup"
    /\ g.props.required = Bool(FALSE)
    /\ getFieldRequirement(g.props.name)
    /\ ~g.out.isRequired
    /\ h.props.component = "BooleanRadioGroup"
    /\ ~h.out.isRequired

----------------------------------------------------------------------------
(* Phone field and blur *)

\* C21: once the phone input has reported a change, the stored value is a
\* string: the empty string when the input reported undefined or the empty
\* string, the reported string otherwise; and a phone field cleared this way
\* shows "Phone number is required for travel notifications" after its next
\* blur.
C21_PhoneValueIsString ==
  isDirty[contactInfo_phone] =>
    LET value == fieldValue[contactInfo_phone]
        reported == selected[contactInfo_phone]
    IN /\ value.kind = "string"
       /\ value # Undefined
       /\ value = IF reported = Undefined \/ reported = Str(<< >>)
                    THEN Str(<< >>) ELSE reported
       /\ (value = Str(<< >>) /\ Blurred(contactInfo_phone)) =>
            errors[contactInfo_phone] =
              Str(<<"Phone number is required for travel notifications">>)

C21_Witness ==
  /\ isDirty[contactInfo_phone]
  /\ selected[contactInfo_phone] = Undefined
  /\ fieldValue[contactInfo_phone] = Str(<< >>)
  /\ Blurred(contactInfo_phone)
  /\ errors[contactInfo_phone] = PhoneRequired

\* the step is a blur of field f: of the email input, of the phone input or
\* of a radio group
BlurOf(f) ==
  \/ f = contactInfo_email /\ EmailBlur
  \/ f = contactInfo_phone /\ handlePhoneBlur
  \/ f \in Fields /\ BlurRadioGroup(f)

\* C22: a blur step leaves the value of every field as it was, and with it
\* the string an adapted boolean field shows; of the errors only the one of
\* the blurred field may change.
C22_BlurKeepsValue ==
  [][\A f \in AllFields :
       BlurOf(f) =>
         /\ fieldValue' = fieldValue
         /\ \A g \in CustomsFields : view'[g].value = view[g].value
         /\ \A g \in AllFields \ {f} : errors'[g] = errors[g]
    ]_vars

C22_Witness ==
  /\ Blurred(contactInfo_phone)
  /\ isDirty[contactInfo_phone]
  /\ fieldValue[contactInfo_phone] = Str(<<"+", "1">>)
  /\ errors[contactInfo_phone] = PhoneInvalid
  /\ fieldValue[contactInfo_email] = Undefined
  /\ isTouched[contactInfo_email]

====
